---- MODULE Spec2Model ----
(***************************************************************************)
(* State machine of the Demo page (frontend/src/app/demo/page.tsx, the     *)
(* most complete iteration, lines 147-400): two asynchronous submission    *)
(* workflows, analyze (job description) and ingestResume (resume), their   *)
(* loading flags, result slots and the single error slot they share.       *)
(*                                                                         *)
(* JavaScript strings that the code inspects (the textarea value, the      *)
(* error message) are sequences of one-character strings, so that trim,    *)
(* template literals and "contains" are computed.  A nullable value is a   *)
(* sequence of length at most one: None is null, Some(x) is x.             *)
(***************************************************************************)
EXTENDS Integers, Sequences, FiniteSets, TLC

\* Longest textarea value the user types.
MaxLen == 2

\* Submissions of one workflow that a run accepts.
MaxSubmissions == 2

None == <<>>
Some(x) == <<x>>
IsSet(o) == o # None

----------------------------------------------------------------------------
(* Strings *)

\* Characters the user types: a space and a letter.
Chars == {" ", "a"}

Texts == UNION {[1..n -> Chars] : n \in 0..MaxLen}

\* white space as String.prototype.trim sees it
IsSpace(c) == c \in {" ", "\n"}

RECURSIVE TrimStart(_)
TrimStart(s) ==
  IF s = <<>> THEN <<>>
  ELSE IF IsSpace(Head(s)) THEN TrimStart(Tail(s)) ELSE s

RECURSIVE TrimEnd(_)
TrimEnd(s) ==
  IF s = <<>> THEN <<>>
  ELSE IF IsSpace(s[Len(s)]) THEN TrimEnd(SubSeq(s, 1, Len(s) - 1)) ELSE s

\* String.prototype.trim
Trim(s) == TrimEnd(TrimStart(s))

DigitChars == <<"0", "1", "2", "3", "4", "5", "6", "7", "8", "9">>

\* Decimal rendering of a non-negative integer inside a template literal.
RECURSIVE NumberToString(_)
NumberToString(n) ==
  IF n < 10 THEN <<DigitChars[n + 1]>>
  ELSE NumberToString(n \div 10) \o <<DigitChars[(n % 10) + 1]>>

\* needle occurs in hay as a contiguous substring
Contains(hay, needle) ==
  \E i \in 1..(Len(hay) - Len(needle) + 1) :
    SubSeq(hay, i, i + Len(needle) - 1) = needle

\* a || b on strings: the empty string is falsy
OrElse(a, b) == IF a = <<>> THEN b ELSE a

----------------------------------------------------------------------------
(* What the network and the service can answer *)

\* HTTP statuses the service answers with.
Statuses == {200, 201, 404, 500}

\* Response.ok
ResOk(status) == status >= 200 /\ status <= 299

\* e.message of a rejected fetch() or res.json(): empty, or a description.
FailedToFetch == <<"F", "a", "i", "l", "e", "d", " ", "t", "o", " ", "f", "e", "t", "c", "h">>
FailureMessages == {<<>>, FailedToFetch}

\* Decoded bodies of /parse-jd (type ParsedJD).
JDBodies ==
  { [title |-> "Senior Backend Engineer", company |-> "Acme", seniority |-> "senior",
     requirements |-> <<[skill |-> "Go", priority |-> "must"]>>,
     responsibilities |-> <<"Build services">>],
    [title |-> "null", company |-> "null", seniority |-> "null",
     requirements |-> <<>>, responsibilities |-> <<>>] }

\* Decoded bodies of /resume/ingest (type ResumeOut).
ResumeBodies ==
  { [basics |-> [name |-> "Ada", email |-> "ada@example.com", links |-> <<>>],
     experience |-> <<[company |-> "Acme", title |-> "Engineer",
                       start |-> "2021-03", end |-> "PRESENT",
                       stack |-> <<"Go">>,
                       bullets |-> <<[id |-> "b1", text |-> "Built services",
                                      skills |-> <<"Go">>]>>]>>,
     projects |-> <<>>, skills |-> <<"Go">>, education |-> <<>>],
    [basics |-> [name |-> "null", email |-> "null", links |-> <<>>],
     experience |-> <<>>, projects |-> <<>>, skills |-> <<>>, education |-> <<>>] }

\* Files the picker can hand over.
Files == {"cv.pdf", "cv.docx"}

----------------------------------------------------------------------------
(* State *)

VARIABLES
  jd,         \* textarea value
  loadingJD,  \* job-description in-flight flag
  parsed,     \* job-description result, None or Some(ParsedJD)
  resume,     \* resume result, None or Some(ResumeOut)
  loadingCV,  \* resume in-flight flag
  file,       \* selected file, None or Some(file)
  error,      \* the one error slot, None or Some(message)
  callsJD,    \* invocations of analyze that have not returned
  callsCV,    \* invocations of ingestResume that have not returned
  accepted,   \* per workflow: clicks that passed the button gate
  issued,     \* per workflow: fetch() calls made
  settled,    \* per workflow: invocations that have returned
  ym,         \* the date token handed to fmtDate
  rendered    \* None, or Some(what fmtDate returned for ym)

vars == <<jd, loadingJD, parsed, resume, loadingCV, file, error, callsJD, callsCV,
          accepted, issued, settled, ym, rendered>>

\* The date rendering, which no handler of the page touches.
fmtVars == <<ym, rendered>>

\* An invocation suspended at an await: pc "fetch" is `await fetch(...)`,
\* pc "json" is `await res.json()`; body is the request body it sent.
Call(pc, body) == [pc |-> pc, body |-> body]

RemoveAt(s, i) == SubSeq(s, 1, i - 1) \o SubSeq(s, i + 1, Len(s))

Init ==
  /\ jd = <<>>
  /\ loadingJD = FALSE
  /\ parsed = None
  /\ resume = None
  /\ loadingCV = FALSE
  /\ file = None
  /\ error = None
  /\ callsJD = <<>>
  /\ callsCV = <<>>
  /\ accepted = [jd |-> 0, cv |-> 0]
  /\ issued = [jd |-> 0, cv |-> 0]
  /\ settled = [jd |-> 0, cv |-> 0]
  /\ ym = None
  /\ rendered = None

----------------------------------------------------------------------------
(* Error messages *)

ErrorColon == <<"E", "r", "r", "o", "r", ":", " ">>
HTTPSpace == <<"H", "T", "T", "P", " ">>
FailedToAnalyze == <<"F", "a", "i", "l", "e", "d", " ", "t", "o", " ", "a", "n", "a", "l", "y", "z", "e">>
FailedToIngestResume ==
  <<"F", "a", "i", "l", "e", "d", " ", "t", "o", " ", "i", "n", "g", "e", "s", "t", " ", "r", "e", "s", "u", "m", "e">>

\* Mutant of AnalyzeStatusMessage: the message names the failure but not the
\* status.
AnalyzeStatusMessageNoStatus(status) == ErrorColon \o <<"f", "a", "i", "l", "e", "d">>

\* new Error(`Error: ${res.status}`).message
AnalyzeStatusMessage(status) == ErrorColon \o NumberToString(status)

\* new Error(`HTTP ${res.status}`).message
IngestStatusMessage(status) == HTTPSpace \o NumberToString(status)

\* Mutant of AnalyzeCatchMessage: e.message without the fallback.
AnalyzeCatchMessageNoFallback(message) == message

\* e.message || 'Failed to analyze'
AnalyzeCatchMessage(message) == OrElse(message, FailedToAnalyze)

\* e.message || 'Failed to ingest resume'
IngestCatchMessage(message) == OrElse(message, FailedToIngestResume)

----------------------------------------------------------------------------
(* Job-description workflow *)

\* Mutant of AnalyzeDisabled: the gate tests the raw text, not its trim.
AnalyzeDisabledNoTrim == jd = <<>> \/ loadingJD

\* Mutant of AnalyzeDisabled: the gate ignores the in-flight flag.
AnalyzeDisabledIgnoresLoading == Trim(jd) = <<>>

\* disabled={!jd.trim() || loadingJD}
AnalyzeDisabled == Trim(jd) = <<>> \/ loadingJD

\* analyze() up to its first await: the three setters and the fetch call
AnalyzeStart ==
  /\ loadingJD' = TRUE
  /\ error' = None
  /\ parsed' = None
  /\ callsJD' = Append(callsJD, Call("fetch", [raw_text |-> jd]))
  /\ issued' = [issued EXCEPT !.jd = @ + 1]
  /\ UNCHANGED <<jd, resume, loadingCV, file, callsCV, settled, fmtVars>>

\* A click on the Analyze button; a disabled button does not call onClick.
ClickAnalyze ==
  IF AnalyzeDisabled THEN UNCHANGED vars
  ELSE /\ accepted.jd < MaxSubmissions
       /\ accepted' = [accepted EXCEPT !.jd = @ + 1]
       /\ AnalyzeStart

\* Mutant of AnalyzeCatch: no finally block, the flag is lowered only on the
\* success path.
AnalyzeCatchNoFinally(i, message) ==
  /\ error' = Some(AnalyzeCatchMessage(message))
  /\ callsJD' = RemoveAt(callsJD, i)
  /\ settled' = [settled EXCEPT !.jd = @ + 1]
  /\ UNCHANGED <<jd, loadingJD, parsed, resume, loadingCV, file, callsCV,
                 accepted, issued, fmtVars>>

\* Mutant of AnalyzeCatch: a failure re-issues the request instead of
\* settling.
AnalyzeCatchRetries(i, message) ==
  /\ callsJD' = [callsJD EXCEPT ![i].pc = "fetch"]
  /\ issued' = [issued EXCEPT !.jd = @ + 1]
  /\ UNCHANGED <<jd, loadingJD, parsed, resume, loadingCV, file, error, callsCV,
                 accepted, settled, fmtVars>>

\* catch (e) { setError(...) } finally { setLoadingJD(false) }
AnalyzeCatch(i, message) ==
  /\ error' = Some(AnalyzeCatchMessage(message))
  /\ loadingJD' = FALSE
  /\ callsJD' = RemoveAt(callsJD, i)
  /\ settled' = [settled EXCEPT !.jd = @ + 1]
  /\ UNCHANGED <<jd, parsed, resume, loadingCV, file, callsCV,
                 accepted, issued, fmtVars>>

\* fetch() resolves with a response: !res.ok throws into the catch,
\* otherwise the invocation suspends at res.json()
AnalyzeFetchResolves(i, status) ==
  /\ i \in 1..Len(callsJD)
  /\ callsJD[i].pc = "fetch"
  /\ IF ~ResOk(status)
     THEN AnalyzeCatch(i, AnalyzeStatusMessage(status))
     ELSE /\ callsJD' = [callsJD EXCEPT ![i].pc = "json"]
          /\ UNCHANGED <<jd, loadingJD, parsed, resume, loadingCV, file, error, callsCV,
                         accepted, issued, settled, fmtVars>>

\* fetch() rejects (network error)
AnalyzeFetchRejects(i, message) ==
  /\ i \in 1..Len(callsJD)
  /\ callsJD[i].pc = "fetch"
  /\ AnalyzeCatch(i, message)

\* res.json() resolves: setParsed(data), then finally
AnalyzeJsonResolves(i, data) ==
  /\ i \in 1..Len(callsJD)
  /\ callsJD[i].pc = "json"
  /\ parsed' = Some(data)
  /\ loadingJD' = FALSE
  /\ callsJD' = RemoveAt(callsJD, i)
  /\ settled' = [settled EXCEPT !.jd = @ + 1]
  /\ UNCHANGED <<jd, resume, loadingCV, file, error, callsCV,
                 accepted, issued, fmtVars>>

\* res.json() rejects (body is not JSON)
AnalyzeJsonRejects(i, message) ==
  /\ i \in 1..Len(callsJD)
  /\ callsJD[i].pc = "json"
  /\ AnalyzeCatch(i, message)

\* Textarea onChange
SetJd(text) ==
  /\ jd' = text
  /\ UNCHANGED <<loadingJD, parsed, resume, loadingCV, file, error, callsJD, callsCV,
                 accepted, issued, settled, fmtVars>>

\* Mutant of ClickClear: only the text is cleared.
ClickClearKeepsResult ==
  /\ jd' = <<>>
  /\ UNCHANGED <<loadingJD, parsed, resume, loadingCV, file, error, callsJD, callsCV,
                 accepted, issued, settled, fmtVars>>

\* Mutant of ClickClear: Clear also abandons the outstanding request.
ClickClearCancels ==
  /\ parsed' = None
  /\ jd' = <<>>
  /\ callsJD' = <<>>
  /\ loadingJD' = FALSE
  /\ UNCHANGED <<resume, loadingCV, file, error, callsCV,
                 accepted, issued, settled, fmtVars>>

\* Mutant of ClickClear: Clear also clears the error.
ClickClearClearsError ==
  /\ parsed' = None
  /\ jd' = <<>>
  /\ error' = None
  /\ UNCHANGED <<loadingJD, resume, loadingCV, file, callsJD, callsCV,
                 accepted, issued, settled, fmtVars>>

\* Clear button onClick
ClickClear ==
  /\ parsed' = None
  /\ jd' = <<>>
  /\ UNCHANGED <<loadingJD, resume, loadingCV, file, error, callsJD, callsCV,
                 accepted, issued, settled, fmtVars>>

----------------------------------------------------------------------------
(* Resume workflow *)

\* Mutant of IngestDisabled: the gate ignores the in-flight flag.
IngestDisabledIgnoresLoading == file = None

\* disabled={!file || loadingCV}
IngestDisabled == file = None \/ loadingCV

\* ingestResume() up to its first await
IngestResumeStart ==
  IF file = None
  THEN UNCHANGED <<jd, loadingJD, parsed, resume, loadingCV, file, error, callsJD,
                   callsCV, issued, settled, fmtVars>>
  ELSE /\ loadingCV' = TRUE
       /\ error' = None
       /\ resume' = None
       /\ callsCV' = Append(callsCV, Call("fetch", [file |-> file[1]]))
       /\ issued' = [issued EXCEPT !.cv = @ + 1]
       /\ UNCHANGED <<jd, loadingJD, parsed, file, callsJD, settled, fmtVars>>

\* A click on the Ingest Resume button
ClickIngest ==
  IF IngestDisabled THEN UNCHANGED vars
  ELSE /\ accepted.cv < MaxSubmissions
       /\ accepted' = [accepted EXCEPT !.cv = @ + 1]
       /\ IngestResumeStart

\* Mutant of IngestCatch: no finally block.
IngestCatchNoFinally(i, message) ==
  /\ error' = Some(IngestCatchMessage(message))
  /\ callsCV' = RemoveAt(callsCV, i)
  /\ settled' = [settled EXCEPT !.cv = @ + 1]
  /\ UNCHANGED <<jd, loadingJD, parsed, resume, loadingCV, file, callsJD,
                 accepted, issued, fmtVars>>

\* Mutant of IngestCatch: an error already shown is kept.
IngestCatchKeepsFirst(i, message) ==
  /\ error' = IF error = None THEN Some(IngestCatchMessage(message)) ELSE error
  /\ loadingCV' = FALSE
  /\ callsCV' = RemoveAt(callsCV, i)
  /\ settled' = [settled EXCEPT !.cv = @ + 1]
  /\ UNCHANGED <<jd, loadingJD, parsed, resume, file, callsJD,
                 accepted, issued, fmtVars>>

\* catch (e) { setError(...) } finally { setLoadingCV(false) }
IngestCatch(i, message) ==
  /\ error' = Some(IngestCatchMessage(message))
  /\ loadingCV' = FALSE
  /\ callsCV' = RemoveAt(callsCV, i)
  /\ settled' = [settled EXCEPT !.cv = @ + 1]
  /\ UNCHANGED <<jd, loadingJD, parsed, resume, file, callsJD,
                 accepted, issued, fmtVars>>

IngestFetchResolves(i, status) ==
  /\ i \in 1..Len(callsCV)
  /\ callsCV[i].pc = "fetch"
  /\ IF ~ResOk(status)
     THEN IngestCatch(i, IngestStatusMessage(status))
     ELSE /\ callsCV' = [callsCV EXCEPT ![i].pc = "json"]
          /\ UNCHANGED <<jd, loadingJD, parsed, resume, loadingCV, file, error, callsJD,
                         accepted, issued, settled, fmtVars>>

IngestFetchRejects(i, message) ==
  /\ i \in 1..Len(callsCV)
  /\ callsCV[i].pc = "fetch"
  /\ IngestCatch(i, message)

IngestJsonResolves(i, data) ==
  /\ i \in 1..Len(callsCV)
  /\ callsCV[i].pc = "json"
  /\ resume' = Some(data)
  /\ loadingCV' = FALSE
  /\ callsCV' = RemoveAt(callsCV, i)
  /\ settled' = [settled EXCEPT !.cv = @ + 1]
  /\ UNCHANGED <<jd, loadingJD, parsed, file, error, callsJD,
                 accepted, issued, fmtVars>>

IngestJsonRejects(i, message) ==
  /\ i \in 1..Len(callsCV)
  /\ callsCV[i].pc = "json"
  /\ IngestCatch(i, message)

\* File input onChange
SetFile(f) ==
  /\ file' = f
  /\ UNCHANGED <<jd, loadingJD, parsed, resume, loadingCV, error, callsJD, callsCV,
                 accepted, issued, settled, fmtVars>>

----------------------------------------------------------------------------

Next ==
  \/ \E text \in Texts : SetJd(text)
  \/ ClickAnalyze
  \/ ClickClear
  \/ \E i \in 1..Len(callsJD), status \in Statuses : AnalyzeFetchResolves(i, status)
  \/ \E i \in 1..Len(callsJD), message \in FailureMessages : AnalyzeFetchRejects(i, message)
  \/ \E i \in 1..Len(callsJD), data \in JDBodies : AnalyzeJsonResolves(i, data)
  \/ \E i \in 1..Len(callsJD), message \in FailureMessages : AnalyzeJsonRejects(i, message)
  \/ \E f \in {None} \cup {Some(x) : x \in Files} : SetFile(f)
  \/ ClickIngest
  \/ \E i \in 1..Len(callsCV), status \in Statuses : IngestFetchResolves(i, status)
  \/ \E i \in 1..Len(callsCV), message \in FailureMessages : IngestFetchRejects(i, message)
  \/ \E i \in 1..Len(callsCV), data \in ResumeBodies : IngestJsonResolves(i, data)
  \/ \E i \in 1..Len(callsCV), message \in FailureMessages : IngestJsonRejects(i, message)

Spec == Init /\ [][Next]_vars

----------------------------------------------------------------------------
(* fmtDate, the date rendering of an experience entry *)

\* Years and months of the "YYYY-MM" tokens rendered; months run from
\* MonthsBelow under 1 to MonthsAbove over 12.
MonthsBelow == 3
MonthsAbove == 3
Years == {<<"0", "0", "0", "1">>, <<"1", "9", "9", "9">>, <<"2", "0", "2", "4">>}
Months == (1 - MonthsBelow)..(12 + MonthsAbove)

PRESENT == <<"P", "R", "E", "S", "E", "N", "T">>
Present == <<"P", "r", "e", "s", "e", "n", "t">>
\* the one-character string U+2014
EmDash == <<"EM DASH">>
UndefinedText == <<"u", "n", "d", "e", "f", "i", "n", "e", "d">>

monthNames ==
  << <<"J", "a", "n">>, <<"F", "e", "b">>, <<"M", "a", "r">>, <<"A", "p", "r">>,
     <<"M", "a", "y">>, <<"J", "u", "n">>, <<"J", "u", "l">>, <<"A", "u", "g">>,
     <<"S", "e", "p">>, <<"O", "c", "t">>, <<"N", "o", "v">>, <<"D", "e", "c">> >>

\* The token of year y and integer month mo as the service writes it:
\* the month in two digits, a negative month with its sign.
DateToken(y, mo) ==
  y \o <<"-">> \o
    (IF mo < 0 THEN <<"-">> \o NumberToString(0 - mo)
     ELSE IF mo < 10 THEN <<"0">> \o NumberToString(mo)
     ELSE NumberToString(mo))

\* What DateRange hands to fmtDate: null, '', 'PRESENT', a "YYYY-MM" token,
\* or a year without a month.
DateInputs ==
  {None, Some(<<>>), Some(PRESENT)}
    \cup {Some(DateToken(y, mo)) : y \in Years, mo \in Months}
    \cup {Some(y) : y \in Years}

\* String.prototype.split('-'): the pieces between the dashes
RECURSIVE SplitFrom(_, _, _)
SplitFrom(s, piece, pieces) ==
  IF s = <<>> THEN Append(pieces, piece)
  ELSE IF Head(s) = "-" THEN SplitFrom(Tail(s), <<>>, Append(pieces, piece))
  ELSE SplitFrom(Tail(s), Append(piece, Head(s)), pieces)

Split(s) == SplitFrom(s, <<>>, <<>>)

\* Array destructuring: element k, or undefined (None) past the end
ElementAt(arr, k) == IF k <= Len(arr) THEN Some(arr[k]) ELSE None

IsDigit(c) == \E d \in 1..10 : DigitChars[d] = c

DigitValue(c) == (CHOOSE d \in 1..10 : DigitChars[d] = c) - 1

RECURSIVE DigitsValue(_)
DigitsValue(s) ==
  IF s = <<>> THEN 0
  ELSE 10 * DigitsValue(SubSeq(s, 1, Len(s) - 1)) + DigitValue(s[Len(s)])

\* Number(m): a number is Some(n), NaN is None.  undefined is NaN, '' is
\* 0, a run of digits is its value, anything else is NaN.
Number(m) ==
  IF m = None THEN None
  ELSE IF \A k \in 1..Len(m[1]) : IsDigit(m[1][k]) THEN Some(DigitsValue(m[1]))
  ELSE None

\* Math.min and Math.max: NaN if either argument is NaN
MathMin(a, b) ==
  IF a = None \/ b = None THEN None
  ELSE IF a[1] <= b[1] THEN a ELSE b

MathMax(a, b) ==
  IF a = None \/ b = None THEN None
  ELSE IF a[1] >= b[1] THEN a ELSE b

\* x - 1
MinusOne(x) == IF x = None THEN None ELSE Some(x[1] - 1)

\* Mutant of MonthIndex: the index is not clamped.
MonthIndexNoClamp(m) == MinusOne(Number(m))

\* Math.max(0, Math.min(11, Number(m) - 1))
MonthIndex(m) == MathMax(Some(0), MathMin(Some(11), MinusOne(Number(m))))

\* `${monthNames[idx]}`: an index outside the array, or NaN, reads undefined
MonthText(idx) ==
  IF idx # None /\ idx[1] \in 0..(Len(monthNames) - 1)
  THEN monthNames[idx[1] + 1]
  ELSE UndefinedText

fmtDate(token) ==
  IF token = None \/ token = Some(<<>>) THEN EmDash
  ELSE IF token = Some(PRESENT) THEN Present
  ELSE LET parts == Split(token[1])
           y == ElementAt(parts, 1)
           m == ElementAt(parts, 2)
           idx == MonthIndex(m)
       IN MonthText(idx) \o <<" ">> \o (IF y = None THEN UndefinedText ELSE y[1])

\* DateRange is rendered with another token
PickDate(token) ==
  /\ ym' = token
  /\ rendered' = None
  /\ UNCHANGED <<jd, loadingJD, parsed, resume, loadingCV, file, error, callsJD, callsCV,
                 accepted, issued, settled>>

\* fmtDate(ym) returns
RenderDate ==
  /\ rendered = None
  /\ rendered' = Some(fmtDate(ym))
  /\ UNCHANGED <<jd, loadingJD, parsed, resume, loadingCV, file, error, callsJD, callsCV,
                 accepted, issued, settled, ym>>

NextFmt ==
  \/ \E token \in DateInputs : PickDate(token)
  \/ RenderDate

SpecFmt == Init /\ [][NextFmt]_vars

----------------------------------------------------------------------------
(* The two workflows, seen through one interface.  The page has a single   *)
(* error slot (line 158): it is the error of both workflows.               *)

Workflows == {"jd", "cv"}
Other(w) == IF w = "jd" THEN "cv" ELSE "jd"
Calls(w) == IF w = "jd" THEN callsJD ELSE callsCV
Loading(w) == IF w = "jd" THEN loadingJD ELSE loadingCV
Result(w) == IF w = "jd" THEN parsed ELSE resume
ErrorOf(w) == error

\* The submit button of workflow w is disabled.
Disabled(w) == IF w = "jd" THEN AnalyzeDisabled ELSE IngestDisabled
\* Workflow w has something to submit.
InputPresent(w) == IF w = "jd" THEN Trim(jd) # <<>> ELSE file # None

\* A step in which an invocation of workflow w returns (its round-trip settles).
Settles(w) == Len(Calls(w)') < Len(Calls(w))
\* A step in which workflow w starts a submission.
Starts(w) == Len(Calls(w)') > Len(Calls(w))

----------------------------------------------------------------------------
(* Claims *)

\* C1: in every reachable state, no workflow has its result and its error
\* both set.
C1_ResultErrorExclusive ==
  \A w \in Workflows : ~(IsSet(Result(w)) /\ IsSet(ErrorOf(w)))

\* C2: right after a round-trip of a workflow settles, exactly one of that
\* workflow's result and error is set and its in-flight flag is false,
\* whatever the other workflow is doing.
C2_SettleGuarantee ==
  [][\A w \in Workflows :
       Settles(w) => /\ IsSet(Result(w)') # IsSet(ErrorOf(w)')
                     /\ ~Loading(w)']_vars

\* C3: no step of one workflow (start, settle with success, settle with
\* failure) changes the other workflow's in-flight flag, result or error.
C3_Independence ==
  [][\A w \in Workflows :
       Calls(w)' # Calls(w) =>
         /\ Loading(Other(w))' = Loading(Other(w))
         /\ Result(Other(w))' = Result(Other(w))
         /\ ErrorOf(Other(w))' = ErrorOf(Other(w))]_vars

\* C4: the step that starts a submission of workflow B while workflow A is
\* in flight leaves A's in-flight flag, result and error as they were.
C4_StartFrame ==
  [][\A b \in Workflows :
       (Starts(b) /\ Loading(Other(b))) =>
         /\ Loading(Other(b))' = Loading(Other(b))
         /\ Result(Other(b))' = Result(Other(b))
         /\ ErrorOf(Other(b))' = ErrorOf(Other(b))]_vars

\* C5: for each workflow, the in-flight flag is true in exactly the states
\* in which an invocation of the workflow has started and not yet settled.
C5_InFlightIffOutstanding ==
  \A w \in Workflows : Loading(w) <=> Len(Calls(w)) > 0

\* C5 witness: the job-description flag is up with its request outstanding
\* while the resume workflow has settled and its flag is down again.
C5_Witness ==
  /\ loadingJD /\ Len(callsJD) = 1 /\ callsJD[1].pc = "json"
  /\ ~loadingCV /\ callsCV = <<>> /\ IsSet(resume)

\* C6: each workflow has at most one outstanding request in every reachable
\* state.
C6_AtMostOneOutstanding ==
  \A w \in Workflows : Len(Calls(w)) <= 1

\* C6 witness: both workflows in flight, the text still submittable and a
\* file still selected, so only the flag keeps a second submission out.
C6_Witness ==
  /\ loadingJD /\ Len(callsJD) = 1 /\ Trim(jd) # <<>>
  /\ loadingCV /\ Len(callsCV) = 1 /\ IsSet(file)

\* C7: while the text is empty or whitespace-only, no step issues a
\* job-description request or raises the job-description in-flight flag.
C7_BlankTextNoRequest ==
  [][Trim(jd) = <<>> =>
       /\ Len(callsJD') <= Len(callsJD)
       /\ (loadingJD' => loadingJD)]_vars

\* C7 witness: a non-empty, whitespace-only text with nothing in flight.
C7_Witness ==
  /\ jd # <<>> /\ Trim(jd) = <<>>
  /\ ~loadingJD /\ callsJD = <<>>

\* C8: when a response with a non-2xx status settles a round-trip of either
\* workflow, the error is a non-empty string containing the decimal status
\* and that workflow's result is unset.
C8_StatusInError ==
  [][\A status \in Statuses :
       ~ResOk(status) =>
         /\ \A i \in 1..Len(callsJD) :
              AnalyzeFetchResolves(i, status) =>
                /\ IsSet(error') /\ error'[1] # <<>>
                /\ Contains(error'[1], NumberToString(status))
                /\ parsed' = None
         /\ \A i \in 1..Len(callsCV) :
              IngestFetchResolves(i, status) =>
                /\ IsSet(error') /\ error'[1] # <<>>
                /\ Contains(error'[1], NumberToString(status))
                /\ resume' = None]_vars

\* C8 witness: the job-description workflow has settled on a 500.
C8_Witness ==
  /\ error = Some(<<"E", "r", "r", "o", "r", ":", " ", "5", "0", "0">>)
  /\ parsed = None /\ ~loadingJD /\ callsJD = <<>>

\* C9: when a successful response settles a round-trip, the workflow's
\* result is the decoded body and the error is unset.
C9_SuccessResult ==
  [][/\ \A i \in 1..Len(callsJD), data \in JDBodies :
          AnalyzeJsonResolves(i, data) =>
            parsed' = Some(data) /\ ErrorOf("jd")' = None
     /\ \A i \in 1..Len(callsCV), data \in ResumeBodies :
          IngestJsonResolves(i, data) =>
            resume' = Some(data) /\ ErrorOf("cv")' = None]_vars

\* C10: a rejected fetch or a rejected body decoding settles the round-trip
\* with a non-empty error (the failure's description, or the workflow's
\* fallback when the description is empty), the result unset and the
\* in-flight flag down; and every step in which an invocation returns
\* leaves the flag down.
C10_TransportFailure ==
  [][/\ \A i \in 1..Len(callsJD), message \in FailureMessages :
          (AnalyzeFetchRejects(i, message) \/ AnalyzeJsonRejects(i, message)) =>
            /\ error' = Some(IF message = <<>> THEN FailedToAnalyze ELSE message)
            /\ error'[1] # <<>>
            /\ parsed' = None
            /\ ~loadingJD'
     /\ \A i \in 1..Len(callsCV), message \in FailureMessages :
          (IngestFetchRejects(i, message) \/ IngestJsonRejects(i, message)) =>
            /\ error' = Some(IF message = <<>> THEN FailedToIngestResume ELSE message)
            /\ error'[1] # <<>>
            /\ resume' = None
            /\ ~loadingCV'
     /\ \A w \in Workflows : Settles(w) => ~Loading(w)']_vars

\* C10 witness: the resume workflow has settled on a failure without a
\* description.
C10_Witness ==
  /\ error = Some(FailedToIngestResume)
  /\ resume = None /\ ~loadingCV /\ callsCV = <<>>

\* C11: the Clear button empties the text and unsets the job-description
\* result in one step and leaves the selected file, the resume in-flight
\* flag and the resume result as they were.
C11_ClearFrame ==
  [][ClickClear =>
       /\ jd' = <<>>
       /\ parsed' = None
       /\ file' = file /\ loadingCV' = loadingCV /\ resume' = resume
       /\ callsCV' = callsCV]_vars

\* C11 witness: the one job-description submission succeeded, the result
\* and the text are gone again, and the resume workflow holds a file and a
\* result.
C11_Witness ==
  /\ accepted.jd = 1 /\ settled.jd = 1 /\ error = None
  /\ parsed = None /\ jd = <<>>
  /\ IsSet(file) /\ IsSet(resume)

\* C12: while a workflow's precondition is unmet (no file or a resume
\* submission in flight; blank text or a job-description submission in
\* flight) no request of that workflow is issued and a click on its submit
\* button changes nothing.
C12_UnmetPreconditionNoOp ==
  [][/\ (file = None \/ loadingCV) =>
          /\ issued'.cv = issued.cv
          /\ (ClickIngest => UNCHANGED vars)
     /\ (Trim(jd) = <<>> \/ loadingJD) =>
          /\ issued'.jd = issued.jd
          /\ (ClickAnalyze => UNCHANGED vars)]_vars

\* C12 witness: a resume submission is in flight with the file still
\* selected and another submission still allowed, and the text is blank.
C12_Witness ==
  /\ loadingCV /\ IsSet(file) /\ accepted.cv < MaxSubmissions
  /\ Trim(jd) = <<>> /\ ~loadingJD

\* C13: a failed settlement leaves the workflow's in-flight flag down and
\* its submit button enabled whenever its input is still present, and no
\* workflow has its flag up without an outstanding request.
C13_FailureRecoverable ==
  [][\A w \in Workflows :
       /\ (Settles(w) /\ Result(w)' = None) =>
            /\ ~Loading(w)'
            /\ IsSet(error')
            /\ (InputPresent(w)' => ~Disabled(w)')
       /\ (Len(Calls(w)') = 0 => ~Loading(w)')]_vars

\* C13 witness: the job-description submission failed, the text is still
\* there and the Analyze button is enabled again.
C13_Witness ==
  /\ accepted.jd = 1 /\ settled.jd = 1 /\ accepted.cv = 0
  /\ IsSet(error) /\ parsed = None
  /\ Trim(jd) # <<>> /\ ~AnalyzeDisabled

\* C14: per workflow, the requests issued equal the accepted submissions,
\* and every issued request is either outstanding or has settled exactly
\* once; a request leaves the outstanding ones only by settling.
C14_OneRequestPerSubmission ==
  [][\A w \in Workflows :
       /\ issued'[w] = accepted'[w]
       /\ issued'[w] = settled'[w] + Len(Calls(w)')
       /\ settled'[w] >= settled[w]
       /\ (Calls(w)' # Calls(w) /\ ~Starts(w) /\ ~Settles(w)) =>
            Len(Calls(w)') = Len(Calls(w))]_vars

\* C14 witness: the job-description submission failed while the resume
\* request was outstanding; it was issued once and the resume request is
\* still outstanding.
C14_Witness ==
  /\ accepted.jd = 1 /\ issued.jd = 1 /\ settled.jd = 1 /\ callsJD = <<>>
  /\ IsSet(error) /\ parsed = None
  /\ accepted.cv = 1 /\ issued.cv = 1 /\ Len(callsCV) = 1

\* C15: Clear during a job-description submission leaves the outstanding
\* request, the in-flight flag and the error as they were, and a later
\* successful decoding sets the result whatever the text is then.
C15_ClearInFlight ==
  [][/\ (ClickClear /\ loadingJD) =>
          UNCHANGED <<callsJD, loadingJD, error, issued, settled>>
     /\ \A i \in 1..Len(callsJD), data \in JDBodies :
          (jd = <<>> /\ AnalyzeJsonResolves(i, data)) =>
            parsed' = Some(data) /\ jd' = <<>>]_vars

\* C15 witness: the result is set while the text is empty and no
\* submission followed the one that produced it.
C15_Witness ==
  /\ jd = <<>> /\ IsSet(parsed)
  /\ accepted.jd = 1 /\ settled.jd = 1 /\ callsJD = <<>>

\* C16: the error becomes unset only in a step that starts a submission,
\* becomes set or changes only in a step in which a submission settles
\* without a result, and every start of a submission unsets it.
C16_ErrorWriters ==
  [][/\ error' # error =>
          IF error' = None
          THEN \E w \in Workflows : Starts(w)
          ELSE \E w \in Workflows :
                 Settles(w) /\ Result(w) = None /\ Result(w)' = None
     /\ \A w \in Workflows : Starts(w) => error' = None]_vars

\* C16 witness: the job-description submission failed and the resume
\* submission succeeded after it; the error is still set.
C16_Witness ==
  /\ accepted.jd = 1 /\ settled.jd = 1 /\ parsed = None
  /\ accepted.cv = 1 /\ settled.cv = 1 /\ IsSet(resume)
  /\ IsSet(error)

\* C17: a failing settlement that finds an error already set (written by
\* the other workflow's failure during this submission) replaces it by its
\* own message.
C17_LastFailureWins ==
  [][IsSet(error) =>
       /\ \A i \in 1..Len(callsJD) :
            /\ \A status \in Statuses :
                 (~ResOk(status) /\ AnalyzeFetchResolves(i, status)) =>
                   error' = Some(ErrorColon \o NumberToString(status))
            /\ \A message \in FailureMessages :
                 (AnalyzeFetchRejects(i, message) \/ AnalyzeJsonRejects(i, message)) =>
                   error' = Some(IF message = <<>> THEN FailedToAnalyze ELSE message)
       /\ \A i \in 1..Len(callsCV) :
            /\ \A status \in Statuses :
                 (~ResOk(status) /\ IngestFetchResolves(i, status)) =>
                   error' = Some(HTTPSpace \o NumberToString(status))
            /\ \A message \in FailureMessages :
                 (IngestFetchRejects(i, message) \/ IngestJsonRejects(i, message)) =>
                   error' = Some(IF message = <<>> THEN FailedToIngestResume ELSE message)]_vars

\* C17 witness: one submission of each workflow, both settled without a
\* result, and the error is the resume workflow's.
C17_Witness ==
  /\ accepted.jd = 1 /\ settled.jd = 1 /\ parsed = None
  /\ accepted.cv = 1 /\ settled.cv = 1 /\ resume = None
  /\ error = Some(<<"H", "T", "T", "P", " ", "5", "0", "0">>)

\* The month name the claim gives integer month mo.
ClampedMonthName(mo) ==
  monthNames[IF mo < 1 THEN 1 ELSE IF mo > 12 THEN 12 ELSE mo]

\* C18: fmtDate renders an absent or empty token as the em dash, PRESENT as
\* Present, and the token of year y and integer month mo as the month's
\* three-letter name (Jan below 1, Dec above 12), a space and y.
C18_FmtDate ==
  IsSet(rendered) =>
    /\ (ym = None \/ ym = Some(<<>>)) => rendered[1] = EmDash
    /\ ym = Some(PRESENT) => rendered[1] = Present
    /\ \A y \in Years, mo \in Months :
         ym = Some(DateToken(y, mo)) =>
           rendered[1] = ClampedMonthName(mo) \o <<" ">> \o y

\* C18 witness: a month above 12 has been rendered.
C18_Witness ==
  /\ ym = Some(<<"2", "0", "2", "4", "-", "1", "4">>)
  /\ rendered = Some(<<"D", "e", "c", " ", "2", "0", "2", "4">>)

====
